---- MODULE Spec2Model ----
(***************************************************************************)
(* onceForm (src/src/lib/onceForm.ts): a one-shot form token and a         *)
(* "run-once" wrapper for SvelteKit actions.                               *)
(*                                                                         *)
(* The model follows one Node process.  Every guarded call (one invocation *)
(* of the function returned by onceAction, on its own RequestEvent) is a   *)
(* caller.  JavaScript runs each piece of synchronous code to completion   *)
(* and interleaves the pieces at promise boundaries, so every action below *)
(* is one such piece:                                                      *)
(*   Call          wrapped(event) up to its first suspension (lines 74-110)*)
(*   HandlerWrite  the handler calls the patched cookies.set (102-105)     *)
(*   HandlerReturn / HandlerThrow   the handler's own promise settles      *)
(*   LateWrite     cookies.set on the owner's context after its call ended *)
(*   Finally       the .finally callback, running.delete(token) (107)      *)
(*   PromiseSettle the promise stored in the job settles (107)             *)
(*                 and with it the owner's call, which returned it (110)   *)
(*   DupResume     a duplicate continues after `await existing.promise`    *)
(*                 and replays the recorded cookies (85-94)                *)
(* The handler is an arbitrary async function: what it writes and how it   *)
(* settles are chosen nondeterministically.                                *)
(* Every step is also applied to the onceAction of unnamed/part_000 (the   *)
(* variant that shares the promise and replays nothing), kept in simple.   *)
(***************************************************************************)
EXTENDS Integers, Sequences, FiniteSets, TLC

\* ------------------------------------------------------------------ bounds
NumCallers == 3          \* guarded calls made during one run
MaxOps == 2              \* cookie writes the handlers make during one run
MaxLoads == 2            \* page loads (addFormToken calls) during one run

Callers == 1..NumCallers
None == "none"
\* A job is named by the caller that created it; NoJob is what running.get
\* gives for a token with no entry.
NoJob == 0

\* ------------------------------------------------------- program constants
COOKIE == "form_once"
COOKIE_MAX_AGE_SECONDS == 600

\* What event.cookies.get(COOKIE) can give: undefined (no cookie), the empty
\* string (a cookie with an empty value), or a token.
Undefined == "undefined"
TokenValues == {Undefined, "", "t1", "t2"}

\* Cookie writes a handler may issue: [name, value, opts] with opts.path.
SessionOp == <<"session", "s1", "/">>
OversizeOp == <<"blob", "xxxx", "/">>
CookieOps == {SessionOp, OversizeOp}

\* The ops the real cookies.set of a context throws on (SvelteKit's set
\* throws, for instance, on a cookie it will not serialize).
RejectedOps == {OversizeOp}

\* What a handler can return or throw (README lines 28, 76, 80).
ReturnValues == {"ok"}
ThrownValues == {"redirect303"}
SetError == "cookieSetError"

Outcome(kind, val, by) == [kind |-> kind, val |-> val, by |-> by]
NoOutcome == Outcome(None, None, NoJob)

VARIABLES
    running,    \* the module-level Map: token -> job (named by its owner) or NoJob
    pc,         \* each caller's position in wrapped()
    token,      \* the token its event carries
    patched,    \* whether its event.cookies.set has been replaced (line 102)
    existing,   \* the job a duplicate found at line 82
    cookies,    \* the writes its real context has accepted, in order
    outcome,    \* how its call of wrapped() ended
    phase,      \* per job: none, running, handlerSettled, cleaned, settled
    ops,        \* per job: the recorded CookieOp list (line 99)
    result,     \* per job: the handler's outcome, shared through job.promise
    atStart,    \* history: the jobs for its token a caller found when it started
    loads,      \* the page loads served so far (addFormToken)
    simple      \* the same calls made on the onceAction of unnamed/part_000

vars == <<running, pc, token, patched, existing, cookies, outcome,
          phase, ops, result, atStart, loads, simple>>

callVars == <<running, pc, token, patched, existing, cookies, outcome,
              phase, ops, result, atStart, simple>>

\* ------------------------------------------------------------ the registry
\* Mutant of Lookup: the token is ignored, any registered job is found.
LookupAnyToken(reg, tok) ==
    IF \E t \in DOMAIN reg : reg[t] # NoJob
    THEN reg[CHOOSE t \in DOMAIN reg : reg[t] # NoJob]
    ELSE NoJob

\* Mutant of Lookup: the call never sees the job another call registered.
LookupMisses(reg, tok) == NoJob

\* running.get(token) (line 82)
Lookup(reg, tok) == reg[tok]

\* Mutant of Register: the job is never stored in the Map.
RegisterNothing(reg, tok, job) == reg

\* running.set(token, { promise, ops }) (line 108); the job is named by its owner
Register(reg, tok, job) == [reg EXCEPT ![tok] = job]

\* Mutant of Unregister: the cleanup forgets to delete the entry.
UnregisterNothing(reg, tok) == reg

\* Mutant of Unregister: the cleanup empties the whole Map (running.clear()).
UnregisterAll(reg, tok) == [t \in DOMAIN reg |-> NoJob]

\* running.delete(token) (line 107): by token, whatever job is stored there
Unregister(reg, tok) == [reg EXCEPT ![tok] = NoJob]

\* Mutant of TokenMissing: `token === undefined` in place of `!token`.
TokenMissingUndefinedOnly(tok) == tok = Undefined

\* !token (line 77): undefined and the empty string are both falsy
TokenMissing(tok) == tok \in {Undefined, ""}

\* fail(400, { message: 'Form token missing' }) (line 78)
MissingTokenFailure == Outcome("return", "fail400:Form token missing", NoJob)

\* ------------------------------------------------------ record and replay
\* ops.push([name, value, options]) (line 103)
Record(list, op) == Append(list, op)

\* originalSet(name, value, options) / event.cookies.set on an unpatched
\* context: the write lands unless set throws on it
Accepts(c, op) == op \notin RejectedOps

\* The recorded ops a `for (const [name, value, opts] of existing.ops)` loop
\* applies to context c before the first set that throws (lines 86-88, 91-93)
RECURSIVE Applied(_, _)
Applied(list, c) ==
    IF list = <<>> \/ ~Accepts(c, Head(list))
    THEN <<>>
    ELSE <<Head(list)>> \o Applied(Tail(list), c)

\* whether such a loop runs to its end
LoopCompletes(list, c) == Len(Applied(list, c)) = Len(list)

\* The duplicate path after `await existing.promise` (lines 84-95), for
\* duplicate d of job j: the cookies d's context ends with and how d's call
\* ends.  The first loop is inside the try block, so a set that throws there
\* is caught by the same catch clause and the list is replayed once more.
ReplayCookies(d, j) ==
    IF result[j].kind = "return" /\ ~LoopCompletes(ops[j], d)
    THEN cookies[d] \o Applied(ops[j], d) \o Applied(ops[j], d)
    ELSE cookies[d] \o Applied(ops[j], d)

ReplayOutcome(d, j) ==
    IF LoopCompletes(ops[j], d)
    THEN result[j]
    ELSE Outcome("throw", SetError, d)

\* ------------------------------------------------------------------ state
IsOwner(c) == phase[c] # "none"
IsDup(c) == existing[c] # NoJob
Started(c) == pc[c] # "idle"
Unsettled(j) == phase[j] \in {"running", "handlerSettled", "cleaned"}
Settled(j) == phase[j] = "settled"
\* the handler executions made for token tok so far
Invocations(tok) == {c \in Callers : IsOwner(c) /\ token[c] = tok}

\* ------------------------------------- the variant without replay (part_000)
\* unnamed/part_000 guards the same handlers with a Map from token to the
\* job's promise and no recording.  The variable simple holds its state when
\* it is given the same calls, in the same order, with the same handler
\* behaviour: running is its Map (line 51), job says whether a call created
\* a job (line 69), inFlight is the job a call found (line 65), outcome is
\* how the call ended and cookies what its context has accepted.
SimpleInit ==
    [running |-> [t \in TokenValues |-> NoJob],
     job |-> [c \in Callers |-> FALSE],
     inFlight |-> [c \in Callers |-> NoJob],
     outcome |-> [c \in Callers |-> NoOutcome],
     cookies |-> [c \in Callers |-> <<>>]]

\* wrapped(event) of part_000 up to its first suspension (lines 57-71)
SimpleCall(c, tok) ==
    simple' =
        IF tok \in {Undefined, ""}
        THEN [simple EXCEPT !.outcome[c] =
                  Outcome("return", "fail400:Form token missing", NoJob)]
        ELSE IF simple.running[tok] # NoJob
        THEN [simple EXCEPT !.inFlight[c] = simple.running[tok]]
        ELSE [simple EXCEPT !.job[c] = TRUE, !.running[tok] = c]

\* a cookies.set on the context of a call that runs the handler: part_000
\* leaves event.cookies.set alone, the write goes to the real context
SimpleWrite(c, op) ==
    simple' =
        IF simple.job[c] /\ Accepts(c, op)
        THEN [simple EXCEPT !.cookies[c] = Append(simple.cookies[c], op)]
        ELSE simple

\* the .finally callback of part_000 line 69: running.delete(token)
SimpleFinally(c) ==
    simple' =
        IF simple.job[c]
        THEN [simple EXCEPT !.running[token[c]] = NoJob]
        ELSE simple

\* the job settles and with it the call that returned it (line 71)
SimpleSettle(c) ==
    simple' =
        IF simple.job[c]
        THEN [simple EXCEPT !.outcome[c] = result[c]]
        ELSE simple

\* a call that returned inFlight (line 66) ends as that promise ended
SimpleDupResume(d) ==
    simple' =
        IF simple.inFlight[d] # NoJob
        THEN [simple EXCEPT !.outcome[d] = result[simple.inFlight[d]]]
        ELSE simple

Init ==
    /\ running = [t \in TokenValues |-> NoJob]
    /\ pc = [c \in Callers |-> "idle"]
    /\ token = [c \in Callers |-> Undefined]
    /\ patched = [c \in Callers |-> FALSE]
    /\ existing = [c \in Callers |-> NoJob]
    /\ cookies = [c \in Callers |-> <<>>]
    /\ outcome = [c \in Callers |-> NoOutcome]
    /\ phase = [c \in Callers |-> "none"]
    /\ ops = [c \in Callers |-> <<>>]
    /\ result = [c \in Callers |-> NoOutcome]
    /\ atStart = [c \in Callers |-> [unsettled |-> FALSE, settled |-> FALSE]]
    /\ loads = <<>>
    /\ simple = SimpleInit

\* History: whether, when a call carrying tok starts, some job for tok has
\* been created and has not settled yet, and whether some job for tok has
\* settled.
Snapshot(tok) ==
    [unsettled |-> \E j \in Callers : IsOwner(j) /\ token[j] = tok /\ Unsettled(j),
     settled |-> \E j \in Callers : IsOwner(j) /\ token[j] = tok /\ Settled(j)]

\* the cookie writes all handlers have issued so far
RECURSIVE Writes(_)
Writes(n) == IF n = 0 THEN 0 ELSE Len(ops[n]) + Writes(n - 1)

\* ---------------------------------------------------------------- actions
\* wrapped(event) with no usable token (lines 74-79)
CallNoToken(c, tok) ==
    /\ TokenMissing(tok)
    /\ pc' = [pc EXCEPT ![c] = "done"]
    /\ outcome' = [outcome EXCEPT ![c] = MissingTokenFailure]
    /\ UNCHANGED <<running, patched, existing, cookies, phase, ops, result>>

\* wrapped(event) finding a job for its token (lines 82-85): suspends on
\* existing.promise
CallDuplicate(c, tok) ==
    /\ ~TokenMissing(tok)
    /\ Lookup(running, tok) # NoJob
    /\ existing' = [existing EXCEPT ![c] = Lookup(running, tok)]
    /\ pc' = [pc EXCEPT ![c] = "dup"]
    /\ UNCHANGED <<running, patched, cookies, outcome, phase, ops, result>>

\* wrapped(event) finding none (lines 99-110): patches cookies.set, starts
\* the handler, registers the job, and suspends on its promise
CallOwner(c, tok) ==
    /\ ~TokenMissing(tok)
    /\ Lookup(running, tok) = NoJob
    /\ patched' = [patched EXCEPT ![c] = TRUE]
    /\ phase' = [phase EXCEPT ![c] = "running"]
    /\ running' = Register(running, tok, c)
    /\ pc' = [pc EXCEPT ![c] = "owner"]
    /\ UNCHANGED <<existing, cookies, outcome, ops, result>>

\* One guarded call starts, on a fresh event carrying tok.  Callers are
\* taken in order of their numbers and tokens in order of first use (the
\* callers and the tokens are interchangeable, so nothing is lost).
Call(c, tok) ==
    /\ pc[c] = "idle"
    /\ \A b \in Callers : b < c => Started(b)
    /\ tok = "t2" => \E b \in Callers : Started(b) /\ token[b] = "t1"
    /\ token' = [token EXCEPT ![c] = tok]
    /\ atStart' = [atStart EXCEPT ![c] = Snapshot(tok)]
    /\ \/ CallNoToken(c, tok)
       \/ CallDuplicate(c, tok)
       \/ CallOwner(c, tok)
    /\ SimpleCall(c, tok)
    /\ UNCHANGED loads

\* The handler calls event.cookies.set on the owner's (patched) context
\* (lines 102-105): the op is recorded first, then the real set runs.  When
\* the real set throws, the handler either catches it and goes on
\* (propagate = FALSE) or lets it reject its promise.
HandlerWrite(c, op, propagate) ==
    /\ phase[c] = "running"
    /\ Writes(NumCallers) < MaxOps
    /\ ops' = [ops EXCEPT ![c] = Record(ops[c], op)]
    /\ IF Accepts(c, op)
       THEN /\ propagate = FALSE
            /\ cookies' = [cookies EXCEPT ![c] = Append(cookies[c], op)]
            /\ UNCHANGED <<phase, result>>
       ELSE /\ UNCHANGED cookies
            /\ IF propagate
               THEN /\ phase' = [phase EXCEPT ![c] = "handlerSettled"]
                    /\ result' = [result EXCEPT ![c] = Outcome("throw", SetError, c)]
               ELSE UNCHANGED <<phase, result>>
    /\ SimpleWrite(c, op)
    /\ UNCHANGED <<running, pc, token, patched, existing, outcome, atStart, loads>>

\* event.cookies.set is called on the owner's context after the owner's call
\* has ended, for instance by the server's handle hook after resolve(event).
\* The replacement installed at line 102 is never taken off, so the write
\* still goes through lines 103-104: it is pushed on the job's ops, then the
\* real set runs (an error it throws goes to that late caller).
LateWrite(c, op) ==
    /\ patched[c]
    /\ Settled(c)
    /\ Writes(NumCallers) < MaxOps
    /\ ops' = [ops EXCEPT ![c] = Record(ops[c], op)]
    /\ cookies' = [cookies EXCEPT ![c] =
                      IF Accepts(c, op) THEN Append(cookies[c], op) ELSE cookies[c]]
    /\ SimpleWrite(c, op)
    /\ UNCHANGED <<running, pc, token, patched, existing, outcome, phase,
                   result, atStart, loads>>

\* The handler returns v: its promise fulfils.
HandlerReturn(c, v) ==
    /\ phase[c] = "running"
    /\ phase' = [phase EXCEPT ![c] = "handlerSettled"]
    /\ result' = [result EXCEPT ![c] = Outcome("return", v, c)]
    /\ UNCHANGED <<running, pc, token, patched, existing, cookies, outcome,
                   ops, atStart, loads, simple>>

\* The handler throws e (an error, or the redirect of kitRedirect, line 120).
HandlerThrow(c, e) ==
    /\ phase[c] = "running"
    /\ phase' = [phase EXCEPT ![c] = "handlerSettled"]
    /\ result' = [result EXCEPT ![c] = Outcome("throw", e, c)]
    /\ UNCHANGED <<running, pc, token, patched, existing, cookies, outcome,
                   ops, atStart, loads, simple>>

\* The .finally callback of line 107 runs once the handler's promise has
\* settled: running.delete(token).
Finally(c) ==
    /\ phase[c] = "handlerSettled"
    /\ running' = Unregister(running, token[c])
    /\ phase' = [phase EXCEPT ![c] = "cleaned"]
    /\ SimpleFinally(c)
    /\ UNCHANGED <<pc, token, patched, existing, cookies, outcome, ops,
                   result, atStart, loads>>

\* The promise .finally returned (the one stored in the job) settles, with
\* the handler's outcome, after the callback has run.  The owner's call
\* returned that very promise (line 110), so it ends with it.
PromiseSettle(c) ==
    /\ phase[c] = "cleaned"
    /\ phase' = [phase EXCEPT ![c] = "settled"]
    /\ outcome' = [outcome EXCEPT ![c] = result[c]]
    /\ pc' = [pc EXCEPT ![c] = "done"]
    /\ SimpleSettle(c)
    /\ UNCHANGED <<running, token, patched, existing, cookies, ops, result, atStart, loads>>

\* A duplicate continues after `await existing.promise` (lines 85-95).
DupResume(d) ==
    /\ pc[d] = "dup"
    /\ Settled(existing[d])
    /\ cookies' = [cookies EXCEPT ![d] = ReplayCookies(d, existing[d])]
    /\ outcome' = [outcome EXCEPT ![d] = ReplayOutcome(d, existing[d])]
    /\ pc' = [pc EXCEPT ![d] = "done"]
    /\ SimpleDupResume(d)
    /\ UNCHANGED <<running, token, patched, existing, phase, ops, result, atStart, loads>>

Next ==
    \/ \E c \in Callers, tok \in TokenValues : Call(c, tok)
    \/ \E c \in Callers, op \in CookieOps, propagate \in BOOLEAN :
          HandlerWrite(c, op, propagate)
    \/ \E c \in Callers, op \in CookieOps : LateWrite(c, op)
    \/ \E c \in Callers, v \in ReturnValues : HandlerReturn(c, v)
    \/ \E c \in Callers, e \in ThrownValues : HandlerThrow(c, e)
    \/ \E c \in Callers : Finally(c)
    \/ \E c \in Callers : PromiseSettle(c)
    \/ \E d \in Callers : DupResume(d)

Spec == Init /\ [][Next]_vars

\* Node runs every queued promise reaction: once enabled, the .finally
\* callback, the settlement of the job's promise and a duplicate's
\* continuation are eventually run.  The handler itself may never settle.
Fairness ==
    \A c \in Callers :
        /\ WF_vars(Finally(c))
        /\ WF_vars(PromiseSettle(c))
        /\ WF_vars(DupResume(c))

FairSpec == Spec /\ Fairness

\* ------------------------------------------------------------ addFormToken
\* Inputs of addFormToken: the load event's url.pathname, the data object
\* (a set of <<key, value>> fields) and what crypto.randomUUID() returns.
Pathnames == {"/login", "/"}
DataObjects == {{}, {<<"user", "ann">>}, {<<"token", "stale">>},
                {<<"user", "ann">>, <<"token", "stale">>}}
UUIDs == {"t1", "t2"}

\* Mutant of Spread: { token, ...data }, a token field of data wins.
SpreadDataWins(data, tok) ==
    IF \E f \in data : f[1] = "token" THEN data ELSE data \cup {<<"token", tok>>}

\* { ...data, token } (line 60): the token field replaces one data has
Spread(data, tok) == {f \in data : f[1] # "token"} \cup {<<"token", tok>>}

\* the options object of lines 56-58
TokenCookieOpts(path) ==
    [httpOnly |-> TRUE, maxAge |-> COOKIE_MAX_AGE_SECONDS, path |-> path]

\* event.cookies.set(COOKIE, token, {...}) (line 55)
TokenCookie(path, tok) == [name |-> COOKIE, value |-> tok, opts |-> TokenCookieOpts(path)]

\* addFormToken(event, data) on a fresh load event (lines 50-61)
AddFormToken(path, data, uuid) ==
    /\ Len(loads) < MaxLoads
    /\ loads' = Append(loads, [pathname |-> path,
                               data |-> data,
                               cookies |-> <<TokenCookie(path, uuid)>>,
                               returned |-> Spread(data, uuid)])
    /\ UNCHANGED callVars

NextIssue ==
    \E path \in Pathnames, data \in DataObjects, uuid \in UUIDs :
        AddFormToken(path, data, uuid)

SpecIssue == Init /\ [][NextIssue]_vars

\* ================================================================== claims
RealTokens == {"t1", "t2"}
Done(c) == pc[c] = "done"
\* the callers sharing job j: its owner and the duplicates that joined it
Sharers(j) == {j} \cup {d \in Callers : existing[d] = j}
\* the recorded ops a context's set does not throw on
Accepted(list) == SelectSeq(list, LAMBDA op : op \notin RejectedOps)

\* C1 (as claimed): a call carrying T that starts while a job for T has been
\* created and has not settled yet never invokes the handler again, so the
\* calls racing with one job cause exactly one handler execution.
C1_SingleExecution ==
    \A c \in Callers :
        (Started(c) /\ token[c] \in RealTokens /\ atStart[c].unsettled) => ~IsOwner(c)

\* C2 (as claimed, for the retry that arrives after an earlier call for the
\* token has completed): the retry does not invoke the handler again, and it
\* ends with the first execution's result.
C2_AtMostOncePerToken ==
    \A c \in Callers :
        (Started(c) /\ token[c] \in RealTokens /\ atStart[c].settled)
            => /\ ~IsOwner(c)
               /\ Cardinality(Invocations(token[c])) <= 1

\* same variant (returned or thrown) and same payload value
SameOutcome(a, b) == a.kind = b.kind /\ a.val = b.val

\* C3 (as claimed): every caller sharing a job ends as the job's handler did:
\* same variant, same payload.
C3_IdenticalResult ==
    \A j \in Callers : \A c \in Sharers(j) :
        (IsOwner(j) /\ Done(c)) => SameOutcome(outcome[c], result[j])

\* C4 (as claimed): when a duplicate has completed, its context has received
\* exactly the cookie writes the owner's context received from the handler,
\* each once and in the same order.
C4_SideEffectReplay ==
    \A d \in Callers :
        (IsDup(d) /\ Done(d)) => cookies[d] = cookies[existing[d]]

\* C5 (as claimed, for a token only one job was started for): when the
\* handler threw and every caller sharing the job has completed, each of
\* them had that same thrown value re-thrown and the registry holds no entry
\* for the token.
C5_ErrorFanOut ==
    \A j \in Callers :
        (IsOwner(j) /\ Invocations(token[j]) = {j}
            /\ result[j].kind = "throw" /\ \A c \in Sharers(j) : Done(c))
            => /\ \A c \in Sharers(j) :
                     outcome[c].kind = "throw" /\ outcome[c].val = result[j].val
               /\ running[token[j]] = NoJob

\* C6: a call whose context carries no form_once token (undefined or empty)
\* ends at once with fail(400, {message: 'Form token missing'}), whatever the
\* registry holds, and changes nothing else: no handler starts, the registry,
\* the recorded ops, the caller's cookies and its cookies.set stay as they are.
C6_MissingTokenStep ==
    \A c \in Callers :
        (pc[c] = "idle" /\ pc'[c] # "idle" /\ token'[c] \in {Undefined, ""})
            => /\ pc'[c] = "done"
               /\ outcome'[c] = [kind |-> "return",
                                 val |-> "fail400:Form token missing",
                                 by |-> NoJob]
               /\ running' = running
               /\ phase' = phase
               /\ ops' = ops
               /\ cookies' = cookies
               /\ patched' = patched
               /\ existing' = existing

C6_MissingToken == [][C6_MissingTokenStep]_vars

\* C6 witness: a token-less call has ended while the registry holds a job.
C6_Witness ==
    \E c \in Callers :
        /\ Done(c) /\ token[c] \in {Undefined, ""}
        /\ outcome[c].val = "fail400:Form token missing"
        /\ \E tok \in RealTokens : running[tok] # NoJob

C8_ReplayNeverFails ==
    \A d \in Callers :
        (IsDup(d) /\ Done(d))
            => /\ outcome[d].val # SetError \/ result[existing[d]].val = SetError
               /\ cookies[d] = Accepted(ops[existing[d]])

\* C9 (as claimed): once the handler of a job has settled, every duplicate
\* waiting on the job eventually completes with the owner's outcome and the
\* job's registry entry is eventually gone.
C9_NoStuckWaiters ==
    \A j, d \in Callers :
        (phase[j] = "handlerSettled" /\ pc[d] = "dup" /\ existing[d] = j)
            ~> (Done(d) /\ SameOutcome(outcome[d], result[j]) /\ running[token[j]] # j)

\* C10: every addFormToken call makes exactly one cookie write, named
\* form_once, HttpOnly, Max-Age 600, Path = the event's pathname; the returned
\* object has exactly one token field, equal to the value written, and
\* otherwise the fields of data unchanged.
C10_TokenIssuance ==
    \A i \in 1..Len(loads) :
        LET l == loads[i]
            w == l.cookies[1]
        IN /\ Len(l.cookies) = 1
           /\ w.name = "form_once"
           /\ w.opts = [httpOnly |-> TRUE, maxAge |-> 600, path |-> l.pathname]
           /\ {f \in l.returned : f[1] = "token"} = {<<"token", w.value>>}
           /\ {f \in l.returned : f[1] # "token"} = {f \in l.data : f[1] # "token"}

\* C10 witness: a load whose data already had a token field and another one.
C10_Witness ==
    \E i \in 1..Len(loads) :
        /\ <<"token", "stale">> \in loads[i].data
        /\ <<"user", "ann">> \in loads[i].returned
        /\ <<"token", loads[i].cookies[1].value>> \in loads[i].returned

\* ------------------------------------------------------------------- C11
\* the handler executions for tok that have started and not settled
InFlight(tok) == {j \in Callers : token[j] = tok /\ phase[j] = "running"}

\* C11: in every state at most one handler execution per token is started
\* and not settled; a token's registry entry appears only in a step of a call
\* that found no entry for it and started the handler, and it disappears
\* only in the cleanup step that follows the settlement of that handler.
C11_Step ==
    \A tok \in RealTokens :
        /\ Cardinality(InFlight(tok)) <= 1
        /\ Cardinality(InFlight(tok))' <= 1
        /\ (running[tok] = NoJob /\ running'[tok] # NoJob)
              => \E c \in Callers :
                    /\ pc[c] = "idle" /\ pc'[c] = "owner"
                    /\ token'[c] = tok /\ existing'[c] = NoJob
                    /\ running'[tok] = c
                    /\ phase[c] = "none" /\ phase'[c] = "running"
        /\ (running[tok] # NoJob /\ running'[tok] # running[tok])
              => /\ running'[tok] = NoJob
                 /\ phase[running[tok]] = "handlerSettled"
                 /\ phase'[running[tok]] = "cleaned"

C11_TokenStateMachine == [][C11_Step]_vars

\* C11 witness: a token has had two handler executions, the first settled
\* and cleaned up, the second one running now under its own entry.
C11_Witness ==
    \E j, k \in Callers :
        /\ j < k /\ token[j] = token[k] /\ token[j] \in RealTokens
        /\ phase[j] = "settled" /\ phase[k] = "running"
        /\ running[token[k]] = k

\* ------------------------------------------------------------------- C12
\* C12 (as claimed): for every token, an entry in the registry means the
\* shared promise of that job has not settled, and no entry means that every
\* job started for the token has settled.
C12_RegistrySettlement ==
    \A tok \in RealTokens :
        /\ running[tok] # NoJob => ~Settled(running[tok])
        /\ running[tok] = NoJob => \A j \in Invocations(tok) : Settled(j)

\* ------------------------------------------------------------------- C13
IsPrefix(s, t) == Len(s) <= Len(t) /\ SubSeq(t, 1, Len(s)) = s

\* C13 (as claimed): a job's op list only grows, and only while its handler
\* is executing; once the job has settled the list never changes again,
\* whatever is written on the owner's context afterwards, so that all
\* duplicates of a job that have replayed hold the same cookies.
C13_Step ==
    \A j \in Callers :
        /\ IsPrefix(ops[j], ops'[j])
        /\ Settled(j) => ops'[j] = ops[j]
        /\ \A d, e \in Callers :
              (existing'[d] = j /\ existing'[e] = j /\ pc'[d] = "done" /\ pc'[e] = "done")
                  => cookies'[d] = cookies'[e]

C13_OpsFrozen == [][C13_Step]_vars

\* ------------------------------------------------------------------- C14
CleanupPending(j) == phase[j] \in {"running", "handlerSettled"}
CleanupDone(j) == phase[j] \in {"cleaned", "settled"}

\* C14: a job stays registered under its token until its handler has
\* settled; the removal has run once the job's promise settles, whether the
\* handler returned or threw, and it has not run while the handler is still
\* executing or before the job was registered; and once the handler has
\* settled the removal does run.
C14_CleanupSafe ==
    \A j \in Callers :
        /\ CleanupPending(j) => running[token[j]] = j
        /\ CleanupDone(j) => /\ result[j].kind \in {"return", "throw"}
                             /\ running[token[j]] # j
        /\ phase[j] = "none" => \A tok \in TokenValues : running[tok] # j

C14_CleanupOnce ==
    /\ []C14_CleanupSafe
    /\ \A j \in Callers : (phase[j] = "handlerSettled") ~> CleanupDone(j)

\* C14 witness: one job whose handler returned and one whose handler threw
\* have both been cleaned up, and no entry is left.
C14_Witness ==
    \E j, k \in Callers :
        /\ CleanupDone(j) /\ result[j].kind = "return"
        /\ CleanupDone(k) /\ result[k].kind = "throw"
        /\ \A tok \in TokenValues : running[tok] = NoJob

\* ------------------------------------------------------------------- C15
\* C15 (as claimed): the op list of a job is at all times exactly the
\* sequence of writes the owner's real context has accepted (a write the
\* real context rejected is not recorded), and the owner is never a
\* duplicate, so nothing is replayed onto it.
C15_RecordingMatchesWrites ==
    \A j \in Callers :
        IsOwner(j) => /\ ops[j] = cookies[j]
                      /\ existing[j] = NoJob

\* ------------------------------------------------------------------- C16
\* C16 (as claimed): no duplicate's context receives a recorded write before
\* the job has settled; and when the handler threw, a duplicate that has
\* completed has received recorded writes in their recorded order and ends
\* with the very value the handler threw.
C16_ThrowPathReplay ==
    \A d \in Callers :
        IsDup(d) =>
            LET j == existing[d]
            IN /\ ~Settled(j) => cookies[d] = <<>>
               /\ (Done(d) /\ result[j].kind = "throw")
                     => /\ IsPrefix(cookies[d], ops[j])
                        /\ SameOutcome(outcome[d], result[j])

\* ------------------------------------------------------------------- C17
\* C17: the cleanup of a job finds its own job under its token and removes
\* nothing else, and whenever a token's entry changes away from a job, the
\* step is the cleanup of that very job: no entry is ever removed or
\* replaced by a call or by the cleanup of another job for the same token.
C17_Step ==
    /\ \A j \in Callers :
          (phase[j] = "handlerSettled" /\ phase'[j] = "cleaned")
              => /\ running[token[j]] = j
                 /\ \A tok \in TokenValues :
                       running'[tok] # running[tok] => running[tok] = j
    /\ \A tok \in RealTokens :
          LET k == running[tok]
          IN (k # NoJob /\ running'[tok] # k)
                => /\ token[k] = tok
                   /\ phase[k] = "handlerSettled" /\ phase'[k] = "cleaned"

C17_NoStaleCleanup == [][C17_Step]_vars

\* C17 witness: an earlier job for a token has been cleaned up and has
\* settled while a later job for the same token, whose handler has settled
\* too, still has its entry.
C17_Witness ==
    \E j, k \in Callers :
        /\ j < k /\ token[j] = token[k] /\ token[k] \in RealTokens
        /\ phase[j] = "settled" /\ phase[k] = "handlerSettled"
        /\ running[token[k]] = k

\* ------------------------------------------------------------------- C18
Range(s) == {s[i] : i \in 1..Len(s)}
\* the jobs started for the token caller c carries
OwnJobs(c) == Invocations(token[c])

\* C18: a call carrying a token waits only on a job started for that same
\* token, ends with the outcome of such a job (or of its own replay), and its
\* context holds only writes recorded by such a job; a call that finds no
\* unsettled job for its own token runs its own handler, whatever the jobs of
\* other tokens are doing.
C18_TokenIsolation ==
    \A c \in Callers :
        (Started(c) /\ token[c] \in RealTokens) =>
            /\ IsDup(c) => existing[c] \in OwnJobs(c)
            /\ ~atStart[c].unsettled => IsOwner(c)
            /\ Done(c) => outcome[c].by \in OwnJobs(c) \cup {c}
            /\ IsOwner(c) => cookies[c] = Accepted(ops[c])
            /\ IsDup(c) => Range(cookies[c]) \subseteq Range(ops[existing[c]])

\* C18 witness: a job for t1 that has recorded a write never settles, a job
\* for t2 has failed, and a duplicate of the t2 job has completed with that
\* job's outcome.
C18_Witness ==
    \E a, b, d \in Callers :
        /\ token[a] = "t1" /\ phase[a] = "running" /\ ops[a] # <<>>
        /\ token[b] = "t2" /\ Settled(b) /\ result[b].kind = "throw"
        /\ token[d] = "t2" /\ existing[d] = b /\ Done(d)
        /\ outcome[d] = result[b]

\* ------------------------------------------------------------------- C19
\* C19 (as claimed): given the same calls and the same handler behaviour,
\* the replaying onceAction and the one of unnamed/part_000 agree, in every
\* state, on which calls run the handler and which join a job, on the
\* handler invocations per token, on how every completed call ended and on
\* the tokens in the registry; the contexts differ only in that part_000
\* writes nothing to the contexts of duplicates.
C19_VariantEquivalence ==
    /\ \A c \in Callers :
          /\ simple.job[c] = IsOwner(c)
          /\ simple.inFlight[c] = existing[c]
          /\ Done(c) => SameOutcome(outcome[c], simple.outcome[c])
          /\ ~Done(c) => simple.outcome[c] = NoOutcome
          /\ IsOwner(c) => simple.cookies[c] = cookies[c]
          /\ IsDup(c) => simple.cookies[c] = <<>>
    /\ \A tok \in TokenValues :
          /\ (simple.running[tok] # NoJob) = (running[tok] # NoJob)
          /\ Cardinality({c \in Callers : simple.job[c] /\ token[c] = tok})
                 = Cardinality(Invocations(tok))

====
